---- MODULE Spec2Model ----
(***************************************************************************)
(* Model of the notification dispatcher of photopoint_testovoe:            *)
(* NotificationService.send_notification                                   *)
(* (src/notifications/services/notification_service.py) together with the  *)
(* Notification rows it writes (src/notifications/models.py).              *)
(*                                                                         *)
(* One behaviour of Spec is one invocation of send_notification on a fresh *)
(* NotificationService.  The coroutine and the tasks it spawns run on one  *)
(* asyncio event loop: a step of the model is the code a coroutine runs    *)
(* between two suspension points.                                          *)
(***************************************************************************)
EXTENDS Integers, Sequences, FiniteSets, TLC

\* ------------------------------------------------------------------ bounds
\* longest priority list the caller passes
MaxPriorityLen == 3

\* how many rows the users table holds
MaxUsers == 2

\* how many rows Notification.create_for_user adds in one behaviour
MaxTypedRows == 2

\* ------------------------------------------------------- program constants
DEFAULT_TIMEOUT == 30
DEFAULT_OVERALL_TIMEOUT == 60

\* a caller-supplied `timeout` keyword, shorter than DEFAULT_TIMEOUT
ShortOverallTimeout == 20

\* Python's None
None == "None"

\* keys of NotificationService.PROVIDERS
PROVIDERS == {"email", "sms", "telegram"}

\* a channel name that is not a key of PROVIDERS
UnknownName == "push"

ProviderNames == PROVIDERS \cup {UnknownName}

\* the priority used when the caller passes priority=None
DefaultPriority == <<"telegram", "email", "sms">>

\* NotificationStatus
PENDING == "pending"
SENT == "sent"
DELIVERED == "delivered"
FAILED == "failed"
READ == "read"

\* ------------------------------------------------------------------ inputs
RECURSIVE SeqsUpTo(_, _)
SeqsUpTo(S, n) ==
  IF n = 0 THEN {<<>>}
  ELSE LET shorter == SeqsUpTo(S, n - 1)
       IN shorter \cup {Append(s, x) : s \in {t \in shorter : Len(t) = n - 1}, x \in S}

\* the `priority` argument when it is a list: possibly empty, with
\* duplicates, with unrecognized names.  priority=None is the flag
\* priority_is_none of SendNotification.
PriorityLists == SeqsUpTo(ProviderNames, MaxPriorityLen)

\* **provider_kwargs of send_notification: a dict, here a function from the
\* keywords given to their values
NoKwargs == [k \in {} |-> 0]

KwargsArgs == {NoKwargs, [k \in {"timeout"} |-> ShortOverallTimeout]}

\* dict.pop(key, default): the value returned
Pop(kwargs, key, default) ==
  IF key \in DOMAIN kwargs THEN kwargs[key] ELSE default

\* dict.pop(key, default): the dict left behind, for a set of keys
Popped(kwargs, keys) == [k \in DOMAIN kwargs \ keys |-> kwargs[k]]

\* d[key] = value on a dict
SetItem(d, key, value) ==
  [k \in DOMAIN d \cup {key} |-> IF k = key THEN value ELSE d[k]]

\* provider_kwargs.setdefault(provider_name, {})['timeout'] = provider_timeout
\* (line 92): the channel's options get the key "timeout", whatever they held
SetProviderTimeout(kwargs, provider_name, timeout) ==
  SetItem(kwargs, provider_name,
          SetItem(Pop(kwargs, provider_name, NoKwargs), "timeout", timeout))

\* NotificationService() constructed without a user: self.user is None
NoUser == [absent |-> TRUE]

\* the users the service is constructed with
Users ==
  [email : {None, "user@example.com"},
   phone_number : {None, "+79001234567"},
   telegram_chat_id : {None, "4242"}]

UserArgs == {NoUser} \cup Users

\* what one provider call does when it is left to run:
\*   success   - provider.send returns True
\*   failure   - provider.send returns False
\*   timeout   - provider.send is still running after provider_timeout
\*   exception - provider.send raises
\*   unconfigured - is_configured is false (it is read from the settings at
\*               every call): provider.send returns False before any
\*               outbound call
\* EmailProvider.send and SMSProvider.send catch Exception around the whole
\* outbound call; TelegramProvider.send builds the Bot outside its try and
\* catches only TelegramError, TimeoutError, NetworkError and OSError.
ProviderBehaviours(name) ==
  IF name = "telegram"
  THEN {"success", "failure", "timeout", "exception", "unconfigured"}
  ELSE {"success", "failure", "timeout", "unconfigured"}

\* ------------------------------------------------------------------- state
VARIABLES
  pc,               \* position of send_notification: idle, waiting, done
  user,             \* self.user
  priority,         \* the local `priority` after line 56-57
  overall_timeout,  \* line 64
  provider_timeout, \* line 65
  records,          \* the notifications table, in creation order
  notification,     \* index in records of the row created at line 68; 0 = none
  tasks,            \* the tasks created at line 120, by position in priority
  ret,              \* none | true | false | raised
  calls,            \* per provider, how often its send() has been called
  call_kwargs,      \* the keyword arguments send_notification was called with
  provider_kwargs,  \* the dict of keyword arguments as the call has changed it
  resolved,         \* the last call of _get_recipient_for_provider made directly
  clock,            \* the time timezone.now() and auto_now_add read
  users,            \* the users table: id -> row
  session,          \* the last-batch marker kept in request.session
  thread,           \* the background thread of NotificationSendView.post
  sends,            \* the send_for_user coroutines of the batch: id -> state
  response,         \* the response to the POST that triggers a batch
  report,           \* the body of the last status response
  fresh             \* history: since that response no row was created or
                    \* written and no batch was started

\* the state of one send_notification call
sendVars == <<pc, user, priority, overall_timeout, provider_timeout,
              notification, tasks, ret, calls, call_kwargs, provider_kwargs,
              resolved>>

\* the state of the batch coordinator and of the web session
batchVars == <<clock, users, session, thread, sends, response, report>>

vars == <<pc, user, priority, overall_timeout, provider_timeout,
          records, notification, tasks, ret, calls,
          clock, users, session, thread, sends, response, report, fresh,
          call_kwargs, provider_kwargs, resolved>>

\* ------------------------------------------------------------ pure helpers
RECURSIVE Join(_)
\* ','.join(priority)
Join(p) ==
  IF Len(p) = 0 THEN ""
  ELSE IF Len(p) = 1 THEN p[1]
  ELSE p[1] \o "," \o Join(Tail(p))

\* Python truthiness of an optional string
Truthy(v) == v # None /\ v # ""

\* the return value None of try_send_with_provider; a successful task
\* returns the tuple (provider_name, recipient)
NoResult == <<>>

\* UserMissing without the check of line 59: no user is ever reported missing
UserMissing_NeverChecked(u) == FALSE

\* `if not self.user` (line 59)
UserMissing(u) == u = NoUser

\* SendNotificationSerializer.validate_priority for a list whose entries
\* passed the ChoiceField: an empty list becomes the default order
ValidatePriority(value) ==
  IF Len(value) = 0 THEN DefaultPriority ELSE value

\* the lists SendNotificationSerializer.priority accepts: every entry is one
\* of the three choices; repeated entries are allowed
ValidPriorityLists == {p \in PriorityLists : \A i \in DOMAIN p : p[i] \in PROVIDERS}

\* ProviderSendCalled with an immediate second try of the same provider
ProviderSendCalled_Retried(c, provider_name) == [c EXCEPT ![provider_name] = @ + 2]

\* provider.send(...) is called once for the named provider (lines 94-99)
ProviderSendCalled(c, provider_name) == [c EXCEPT ![provider_name] = @ + 1]

\* how often a name occurs in a priority list
Occurrences(p, provider_name) ==
  Cardinality({i \in DOMAIN p : p[i] = provider_name})

\* NotificationService._get_recipient_for_provider
GetRecipientForProvider(u, provider_name) ==
  IF u = NoUser THEN None
  ELSE IF provider_name = "email" THEN u.email
  ELSE IF provider_name = "sms" THEN u.phone_number
  ELSE IF provider_name = "telegram" THEN u.telegram_chat_id
  ELSE None

\* the row Notification.objects.create(...) inserts at line 68; created_at
\* is stamped by auto_now_add
NewNotification(u, p, created_at) ==
  [user |-> u,
   created_at |-> created_at,
   status |-> PENDING,
   provider_priority |-> Join(p),
   provider_used |-> None,
   recipient |-> None,
   notification_type |-> "",
   provider_data |-> None,
   sent_at |-> None]

\* a coroutine object of try_send_with_provider wrapped in a task
NewTask(provider_name) ==
  [name |-> provider_name,
   state |-> "new",          \* new | inflight | done | cancelled
   behaviour |-> None,       \* what the provider call does if left to run
   outcome |-> None,         \* how the task ended
   result |-> NoResult,      \* the task's return value
   request |-> "none",       \* none | running | finished: the thread of to_thread
   delivered |-> FALSE]      \* the provider's service has accepted the message

Positions == DOMAIN tasks

DoneTasks == {i \in Positions : tasks[i].state = "done"}

PendingTasks == {i \in Positions : tasks[i].state \in {"new", "inflight"}}

InFlight == {i \in Positions : tasks[i].state = "inflight"}

\* positions whose provider.send has been called
Invoked == {i \in Positions : tasks[i].behaviour # None}

AllStarted == \A i \in Positions : tasks[i].state # "new"

\* _get_recipient_for_provider has not been called on its own
NotResolved == [provider_name |-> None, recipient |-> None]

\* request.session without the two last_notification_* keys
NoMarker == [present |-> FALSE, ids |-> {}, started_at |-> 0]

\* no status response has been produced yet
NoReport == [view |-> "none", statuses |-> <<>>, any_pending |-> FALSE]

\* no background thread has been created
NoThread == [state |-> "none", user_ids |-> {}, message |-> <<>>]

\* ------------------------------------------------------------------- Init
\* everything but the users table
InitService ==
  /\ pc = "idle"
  /\ user = NoUser
  /\ priority = <<>>
  /\ overall_timeout = DEFAULT_OVERALL_TIMEOUT
  /\ provider_timeout = DEFAULT_TIMEOUT
  /\ records = <<>>
  /\ notification = 0
  /\ tasks = <<>>
  /\ ret = "none"
  /\ calls = [c \in PROVIDERS |-> 0]
  /\ call_kwargs = NoKwargs
  /\ provider_kwargs = NoKwargs
  /\ resolved = NotResolved
  /\ clock = 0
  /\ session = NoMarker
  /\ thread = NoThread
  /\ sends = <<>>
  /\ response = "none"
  /\ report = NoReport
  /\ fresh = FALSE

\* the service is called directly: the users table plays no part
Init ==
  /\ InitService
  /\ users = <<>>

\* ---------------------------------------------------------------- actions

\* send_notification, lines 56-73 and 114-123: from the call to the first
\* suspension (the await of asyncio.wait).
\*   create_raises: Notification.objects.create raises.  Line 68 passes
\*   provider_priority, which the Notification model of models.py does not
\*   declare (serializers.py does list it), so whether the insert succeeds
\*   depends on the deployed model; both outcomes are covered.
SendNotification(u, priority_is_none, priority_arg, kwargs, create_raises) ==
  /\ pc = "idle"
  /\ UNCHANGED <<calls, resolved>>
  /\ UNCHANGED batchVars
  /\ call_kwargs' = kwargs
  /\ LET p == IF priority_is_none THEN DefaultPriority ELSE priority_arg
     IN
     /\ user' = u
     /\ priority' = p
     /\ IF UserMissing(u)
        THEN \* lines 59-61
             /\ ret' = "false"
             /\ pc' = "done"
             /\ provider_kwargs' = kwargs
             /\ UNCHANGED <<overall_timeout, provider_timeout, records,
                            notification, tasks>>
        ELSE
          /\ overall_timeout' = Pop(kwargs, "timeout", DEFAULT_OVERALL_TIMEOUT)
          /\ provider_timeout' = Pop(kwargs, "provider_timeout", DEFAULT_TIMEOUT)
          /\ provider_kwargs' = Popped(kwargs, {"timeout", "provider_timeout"})
          /\ IF create_raises
             THEN \* line 68 is outside every try block
                  /\ ret' = "raised"
                  /\ pc' = "done"
                  /\ UNCHANGED <<records, notification, tasks>>
             ELSE IF Len(p) = 0
             THEN \* asyncio.wait([]) raises ValueError: lines 154-158
                  /\ records' = Append(records,
                                  [NewNotification(u, p, clock) EXCEPT !.status = FAILED])
                  /\ notification' = Len(records) + 1
                  /\ tasks' = <<>>
                  /\ ret' = "false"
                  /\ pc' = "done"
             ELSE /\ records' = Append(records, NewNotification(u, p, clock))
                  /\ notification' = Len(records) + 1
                  /\ tasks' = [i \in 1..Len(p) |-> NewTask(p[i])]
                  /\ ret' = "none"
                  /\ pc' = "waiting"
  /\ fresh' = (fresh /\ records' = records)

\* EmailProvider.send hands requests.post to a thread (email_provider.py
\* lines 93-97) unless it returned before (lines 50-52); the other providers
\* await their client on the event loop
RequestThread(provider_name, behaviour) ==
  IF provider_name = "email" /\ behaviour # "unconfigured"
  THEN "running"
  ELSE "none"

\* try_send_with_provider, lines 77-101: the first step of the task at
\* position i, up to the await of the provider call.  The event loop runs
\* the first steps in the order the tasks were created.
StartTask(i) ==
  /\ pc = "waiting"
  /\ i \in Positions
  /\ tasks[i].state = "new"
  /\ \A j \in Positions : j < i => tasks[j].state # "new"
  /\ LET t == tasks[i]
         recipient == GetRecipientForProvider(user, t.name)
     IN
     IF t.name \notin PROVIDERS
     THEN \* lines 77-79
          /\ tasks' = [tasks EXCEPT ![i] =
                         [t EXCEPT !.state = "done", !.outcome = "unknown_provider"]]
          /\ UNCHANGED <<calls, provider_kwargs>>
     ELSE IF ~Truthy(recipient)
     THEN \* lines 85-87
          /\ tasks' = [tasks EXCEPT ![i] =
                         [t EXCEPT !.state = "done", !.outcome = "no_recipient"]]
          /\ UNCHANGED <<calls, provider_kwargs>>
     ELSE \* lines 92-101: provider.send is called under wait_for
          /\ \E b \in ProviderBehaviours(t.name) :
               tasks' = [tasks EXCEPT ![i] =
                           [t EXCEPT !.state = "inflight", !.behaviour = b,
                                     !.request = RequestThread(t.name, b)]]
          /\ calls' = ProviderSendCalled(calls, t.name)
          /\ provider_kwargs' =
               SetProviderTimeout(provider_kwargs, t.name, provider_timeout)
  /\ UNCHANGED <<pc, user, priority, overall_timeout, provider_timeout,
                 records, notification, ret, call_kwargs, resolved>>
  /\ UNCHANGED batchVars
  /\ fresh' = (fresh /\ records' = records)

\* try_send_with_provider, lines 94-111: the provider call of the task at
\* position i ends (returns, raises, or is cut off by wait_for) and the task
\* returns.  A provider timeout fires only if wait_for's deadline comes
\* before the deadline of asyncio.wait.
ProviderCompletes(i) ==
  /\ pc = "waiting"
  /\ AllStarted
  /\ i \in InFlight
  /\ tasks[i].behaviour = "timeout" => provider_timeout < overall_timeout
  /\ LET t == tasks[i]
         recipient == GetRecipientForProvider(user, t.name)
     IN
     tasks' = [tasks EXCEPT ![i] =
                 [t EXCEPT !.state = "done",
                           !.outcome = t.behaviour,
                           !.result = IF t.behaviour = "success"
                                      THEN <<t.name, recipient>>
                                      ELSE NoResult,
                           \* cut off by wait_for, the thread goes on
                           !.request = IF t.request = "running" /\ t.behaviour # "timeout"
                                       THEN "finished"
                                       ELSE t.request,
                           !.delivered = (t.behaviour = "success")]]
  /\ UNCHANGED <<pc, user, priority, overall_timeout, provider_timeout,
                 records, notification, ret, calls, call_kwargs,
                 provider_kwargs, resolved>>
  /\ UNCHANGED batchVars
  /\ fresh' = (fresh /\ records' = records)

\* email_provider.py lines 93-97: the thread started by asyncio.to_thread
\* cannot be cancelled; when the awaiting coroutine was cancelled (line 127)
\* or cut off by wait_for (lines 94-101), requests.post still runs to its end
RequestThreadCompletes(i) ==
  /\ i \in Positions
  /\ tasks[i].state \in {"done", "cancelled"}
  /\ tasks[i].request = "running"
  /\ tasks' = [tasks EXCEPT ![i] =
                 [tasks[i] EXCEPT !.request = "finished",
                                  !.delivered = (tasks[i].behaviour = "success")]]
  /\ UNCHANGED <<pc, user, priority, overall_timeout, provider_timeout,
                 records, notification, ret, calls, call_kwargs,
                 provider_kwargs, resolved>>
  /\ UNCHANGED batchVars
  /\ fresh' = (fresh /\ records' = records)

Cancel_LeftRunning(t) == t

\* task.cancel() on a pending task (lines 126-127)
Cancel(t) == [t EXCEPT !.state = "cancelled", !.outcome = "cancelled"]

StatusWhenNoneSucceeded_LeftPending == PENDING

\* the status written when no task of done has a result (line 144)
StatusWhenNoneSucceeded == FAILED

\* send_notification, lines 125-146, run when asyncio.wait returns with the
\* sets done and pending: cancel pending, then look through done (a set, so
\* in no fixed order) for a truthy result.
AfterWait ==
  LET done == DoneTasks
      pending == PendingTasks
      cancelled == [i \in Positions |->
                      IF i \in pending THEN Cancel(tasks[i]) ELSE tasks[i]]
      winners == {i \in done : tasks[i].result # NoResult}
      \* the model instance held since line 68; save() writes all its fields
      instance == NewNotification(user, priority, records[notification].created_at)
  IN
  /\ tasks' = cancelled
  /\ IF winners # {}
     THEN \E w \in winners :
            /\ records' = [records EXCEPT ![notification] =
                             [instance EXCEPT !.status = SENT,
                                              !.provider_used = tasks[w].result[1],
                                              !.recipient = tasks[w].result[2]]]
            /\ ret' = "true"
     ELSE /\ records' = [records EXCEPT ![notification] =
                           [instance EXCEPT !.status = StatusWhenNoneSucceeded]]
          /\ ret' = "false"
  /\ pc' = "done"
  /\ UNCHANGED <<user, priority, overall_timeout, provider_timeout, notification,
                 calls, call_kwargs, provider_kwargs, resolved>>
  /\ UNCHANGED batchVars
  /\ fresh' = (fresh /\ records' = records)

\* asyncio.wait(..., return_when=FIRST_COMPLETED) returns because a task is
\* done.  The waiter is woken by a done-callback, which the loop runs after
\* the first steps of all tasks.
FirstCompleted ==
  /\ pc = "waiting"
  /\ AllStarted
  /\ DoneTasks # {}
  /\ AfterWait

\* asyncio.wait(..., timeout=overall_timeout) returns because the timeout
\* elapsed with no task done: every provider call is still running.
OverallTimeout ==
  /\ pc = "waiting"
  /\ AllStarted
  /\ DoneTasks = {}
  /\ overall_timeout <= provider_timeout
  /\ AfterWait

\* a caller invokes send_notification on a fresh service
Call ==
  /\ pc = "idle"
  /\ \E u \in UserArgs, n \in BOOLEAN, k \in KwargsArgs, c \in BOOLEAN :
       \E p \in (IF n THEN {<<>>} ELSE PriorityLists) :
         SendNotification(u, n, p, k, c)

\* NotificationViewSet.send (views.py lines 358-379): the request of an
\* authenticated user passes the serializer, and the view calls
\* send_notification with the validated priority.  A list with an entry
\* outside the three choices is answered with 400 and nothing is sent.
ApiSend ==
  /\ pc = "idle"
  /\ \E u \in Users, c \in BOOLEAN, p \in ValidPriorityLists :
       SendNotification(u, FALSE, ValidatePriority(p), NoKwargs, c)

Next ==
  \/ ApiSend
  \/ Call
  \/ \E i \in 1..(MaxPriorityLen + 1) : StartTask(i)
  \/ \E i \in 1..(MaxPriorityLen + 1) : ProviderCompletes(i)
  \/ FirstCompleted
  \/ OverallTimeout
  \/ \E i \in 1..(MaxPriorityLen + 1) : RequestThreadCompletes(i)

Spec == Init /\ [][Next]_vars

\* ------------------------------------------- status changes of stored rows
\* values timezone.now() returns
Times == {"t1", "t2"}

\* the provider_data argument of mark_as_sent and the error_message argument
\* of mark_as_failed: absent or given.  The provider_data column is kept as
\* the text last written to it; None is the empty dict.
MarkData == {None, "info"}

\* Notification.mark_as_sent (models.py lines 82-88) on the row r.
\*   save_raises: save(update_fields=[..., "updated_at"]) raises because
\*   the model of models.py declares no updated_at; nothing is stored then.
MarkAsSent(r, provider_data, now, save_raises) ==
  /\ r \in DOMAIN records
  /\ records' = IF save_raises THEN records
                ELSE [records EXCEPT ![r] =
                        [@ EXCEPT !.status = SENT,
                                  !.sent_at = now,
                                  !.provider_data =
                                     IF Truthy(provider_data) THEN provider_data ELSE @]]
  /\ UNCHANGED sendVars
  /\ UNCHANGED batchVars
  /\ fresh' = (fresh /\ records' = records)

\* Notification.mark_as_delivered (models.py lines 90-93)
MarkAsDelivered(r, save_raises) ==
  /\ r \in DOMAIN records
  /\ records' = IF save_raises THEN records
                ELSE [records EXCEPT ![r] = [@ EXCEPT !.status = DELIVERED]]
  /\ UNCHANGED sendVars
  /\ UNCHANGED batchVars
  /\ fresh' = (fresh /\ records' = records)

\* Notification.mark_as_failed (models.py lines 95-100)
MarkAsFailed(r, error_message, save_raises) ==
  /\ r \in DOMAIN records
  /\ records' = IF save_raises THEN records
                ELSE [records EXCEPT ![r] =
                        [@ EXCEPT !.status = FAILED,
                                  !.provider_data =
                                     IF Truthy(error_message) THEN error_message ELSE @]]
  /\ UNCHANGED sendVars
  /\ UNCHANGED batchVars
  /\ fresh' = (fresh /\ records' = records)

\* Notification.mark_as_read (models.py lines 102-105)
MarkAsRead(r, save_raises) ==
  /\ r \in DOMAIN records
  /\ records' = IF save_raises THEN records
                ELSE [records EXCEPT ![r] = [@ EXCEPT !.status = READ]]
  /\ UNCHANGED sendVars
  /\ UNCHANGED batchVars
  /\ fresh' = (fresh /\ records' = records)

\* NotificationViewSet.mark_as_read (views.py lines 411-421): the owner of
\* the row posts to /mark_as_read/; the view stores status "read" with a
\* plain save().
ApiMarkAsRead(r) ==
  /\ r \in DOMAIN records
  /\ records' = [records EXCEPT ![r] = [@ EXCEPT !.status = "read"]]
  /\ UNCHANGED sendVars
  /\ UNCHANGED batchVars
  /\ fresh' = (fresh /\ records' = records)

\* one send requested through the API, together with the status changes
\* its row can undergo.  The view passes no `timeout`, so the overall
\* timeout (60) never elapses before a provider timeout (30).
NextStore ==
  \/ ApiSend
  \/ \E i \in 1..(MaxPriorityLen + 1) : StartTask(i)
  \/ \E i \in 1..(MaxPriorityLen + 1) : ProviderCompletes(i)
  \/ FirstCompleted
  \/ \E r \in DOMAIN records, d \in MarkData, t \in Times, e \in BOOLEAN :
       MarkAsSent(r, d, t, e)
  \/ \E r \in DOMAIN records, e \in BOOLEAN : MarkAsDelivered(r, e)
  \/ \E r \in DOMAIN records, d \in MarkData, e \in BOOLEAN : MarkAsFailed(r, d, e)
  \/ \E r \in DOMAIN records, e \in BOOLEAN : MarkAsRead(r, e)
  \/ \E r \in DOMAIN records : ApiMarkAsRead(r)

SpecStore == Init /\ [][NextStore]_vars

\* ------------------------------------------------ the batch of the web form
\* the rows of the users table the form can select: staff or not, without any
\* recipient, with a Telegram chat only, or with an e-mail address as well
BatchUsers ==
  {[is_staff |-> st, email |-> r[1], phone_number |-> None, telegram_chat_id |-> r[2]] :
     st \in BOOLEAN,
     r \in {<<None, None>>, <<None, "4242">>, <<"user@example.com", "4242">>}}

UserIds == 1..MaxUsers

\* the response of post: both branches redirect to the form, the first with an
\* error message; the second returns as soon as Thread.start() has returned
PostResponse_WaitsForBatch(batch_started) ==
  IF batch_started THEN "none" ELSE "error_redirect"

PostResponse(batch_started) ==
  IF batch_started THEN "redirect" ELSE "error_redirect"

\* the values of the message field of the form, as sequences of characters
Messages == {<<>>, <<" ">>, <<"h", "i">>, <<" ", "h", "i", " ">>}

\* str.strip(): leading and trailing blanks are removed
RECURSIVE Strip(_)
Strip(str) ==
  IF str = <<>> THEN <<>>
  ELSE IF Head(str) = " " THEN Strip(Tail(str))
  ELSE IF str[Len(str)] = " " THEN Strip(SubSeq(str, 1, Len(str) - 1))
  ELSE str

\* line 149: nothing is sent without a user or without a message
PostRejected_OnlyWithoutUsers(user_ids, message_text) == user_ids = {}

PostRejected(user_ids, message_text) == user_ids = {} \/ message_text = <<>>

\* NotificationSendView.post; one POST per behaviour
Post(user_ids, message) ==
  /\ thread.state = "none"
  /\ response = "none"
  /\ LET message_text == Strip(message)
     IN IF PostRejected(user_ids, message_text)
        THEN /\ response' = PostResponse(FALSE)
             /\ UNCHANGED <<clock, session, thread>>
        ELSE /\ session' = [present |-> TRUE, ids |-> user_ids, started_at |-> clock]
             /\ clock' = clock + 1
             /\ thread' = [state |-> "started", user_ids |-> user_ids,
                           message |-> message_text]
             /\ response' = PostResponse(TRUE)
  /\ UNCHANGED <<users, sends, report, records>>
  /\ UNCHANGED sendVars
  /\ fresh' = (fresh /\ session' = session)

\* lines 170-172: the users of the batch, staff left out
UsersLocal_WithStaff(user_ids_local) == {u \in DOMAIN users : u \in user_ids_local}

UsersLocal(user_ids_local) ==
  {u \in DOMAIN users : u \in user_ids_local /\ ~users[u].is_staff}

\* _run_batch_in_thread up to the first turn of the event loop: the users are
\* loaded again, without staff, and gather wraps one send_for_user per user
ThreadStart ==
  /\ thread.state = "started"
  /\ sends' = [u \in UsersLocal(thread.user_ids) |-> [state |-> "new", row |-> 0]]
  /\ thread' = [thread EXCEPT !.state = "running"]
  /\ UNCHANGED <<clock, users, session, response, report, records>>
  /\ UNCHANGED sendVars
  /\ fresh' = (fresh /\ records' = records)

BatchAllStarted == \A u \in DOMAIN sends : sends[u].state # "new"

BatchWaiting == {u \in DOMAIN sends : sends[u].state = "waiting"}

\* send_for_user(u) up to the await of asyncio.wait inside send_notification
\* (priority None, no kwargs): the row is created, or create raises and
\* send_for_user turns the exception into False
BatchSendStart(u, create_raises) ==
  /\ thread.state = "running"
  /\ u \in DOMAIN sends
  /\ sends[u].state = "new"
  /\ IF create_raises
     THEN /\ sends' = [sends EXCEPT ![u].state = "false"]
          /\ UNCHANGED <<records, clock>>
     ELSE /\ records' = Append(records, NewNotification(u, DefaultPriority, clock))
          /\ clock' = clock + 1
          /\ sends' = [sends EXCEPT ![u] = [state |-> "waiting", row |-> Len(records) + 1]]
  /\ UNCHANGED <<users, session, thread, response, report>>
  /\ UNCHANGED sendVars
  /\ fresh' = (fresh /\ records' = records)

\* what the race of one send can return: no truthy result, or the name and the
\* recipient of a channel the user has a recipient for
BatchResults(u) ==
  {NoResult} \cup
  {<<c, GetRecipientForProvider(users[u], c)>> :
     c \in {n \in PROVIDERS : Truthy(GetRecipientForProvider(users[u], n))}}

\* gather(return_exceptions=True) over send_for_user, which returns False for
\* an exception: one send's result is stored in its own slot
GatherResult_AbortsOthers(s, u, result) ==
  [v \in DOMAIN s |->
     IF v = u THEN [s[v] EXCEPT !.state = result]
     ELSE IF result = "false" /\ s[v].state = "waiting"
          THEN [s[v] EXCEPT !.state = "cancelled"] ELSE s[v]]

GatherResult(s, u, result) == [s EXCEPT ![u].state = result]

\* the row behind the local variable `notification` of u's send_notification:
\* the one that call created at line 68
OwnRow_FirstOfTable(s, u) == 1

OwnRow(s, u) == s[u].row

\* asyncio.wait of u's send returns and lines 126-146 run
BatchSendFinish(u, result) ==
  /\ thread.state = "running"
  /\ BatchAllStarted
  /\ u \in BatchWaiting
  /\ LET row == OwnRow(sends, u)
         instance == NewNotification(u, DefaultPriority, records[row].created_at)
     IN IF result # NoResult
        THEN /\ records' = [records EXCEPT ![row] =
                              [instance EXCEPT !.status = SENT,
                                               !.provider_used = result[1],
                                               !.recipient = result[2]]]
             /\ sends' = GatherResult(sends, u, "true")
        ELSE /\ records' = [records EXCEPT ![row] = [instance EXCEPT !.status = FAILED]]
             /\ sends' = GatherResult(sends, u, "false")
  /\ UNCHANGED <<clock, users, session, thread, response, report>>
  /\ UNCHANGED sendVars
  /\ fresh' = (fresh /\ records' = records)

\* the rows after the sends in cancelled_rows got CancelledError at their
\* await: it is no Exception, so no handler of send_notification writes
RecordsAfterCancel_MarkedFailed(recs, cancelled_rows) ==
  [r \in DOMAIN recs |->
     IF r \in cancelled_rows THEN [recs[r] EXCEPT !.status = FAILED] ELSE recs[r]]

RecordsAfterCancel(recs, cancelled_rows) == recs

\* wait_for(run_batch(), timeout=90) expires: the gather and with it every
\* send still waiting is cancelled, and the thread logs the TimeoutError.
\* The timer can only expire before the sends' own timeouts when the loop
\* was blocked long enough while the sends were started.
BatchTimeout ==
  /\ thread.state = "running"
  /\ BatchAllStarted
  /\ BatchWaiting # {}
  /\ sends' = [u \in DOMAIN sends |->
                 IF u \in BatchWaiting THEN [sends[u] EXCEPT !.state = "cancelled"]
                 ELSE sends[u]]
  /\ records' = RecordsAfterCancel(records, {sends[u].row : u \in BatchWaiting})
  /\ thread' = [thread EXCEPT !.state = "timed_out"]
  /\ UNCHANGED <<clock, users, session, response, report>>
  /\ UNCHANGED sendVars
  /\ fresh' = (fresh /\ records' = records)

\* gather returns the list of results and the thread logs the success count
BatchFinish ==
  /\ thread.state = "running"
  /\ \A u \in DOMAIN sends : sends[u].state \in {"true", "false"}
  /\ thread' = [thread EXCEPT !.state = "finished"]
  /\ UNCHANGED <<clock, users, session, sends, response, report, records>>
  /\ UNCHANGED sendVars
  /\ fresh' = (fresh /\ records' = records)

\* ------------------------------------------------------- the status queries
NotificationTypes == {"email", "sms", "telegram"}

\* qs.order_by("-created_at").first() over the rows of the user and type that
\* were created at or after started_at; 0 when there is none
LastNotif(u, nt, started_at) ==
  LET qs == {r \in DOMAIN records :
               /\ records[r].user = u
               /\ records[r].notification_type = nt
               /\ records[r].created_at >= started_at}
  IN IF qs = {} THEN 0
     ELSE CHOOSE r \in qs : \A q \in qs : records[q].created_at <= records[r].created_at

\* the if/elif chain over last_notif.status
StatusKey(last_notif) ==
  IF last_notif = 0 THEN "not_sent"
  ELSE LET status == records[last_notif].status
       IN CASE status = PENDING -> "pending"
            [] status \in {SENT, DELIVERED} -> "success"
            [] status = FAILED -> "error"
            [] OTHER -> "unknown"

\* users_qs.filter(id__in=last_ids) over the non-staff users
SelectedUsers(last_ids) == {u \in DOMAIN users : ~users[u].is_staff /\ u \in last_ids}

SendStatuses(marker) ==
  [u \in SelectedUsers(marker.ids) |->
     [nt \in NotificationTypes |-> StatusKey(LastNotif(u, nt, marker.started_at))]]

AnyPending(send_statuses) ==
  \E u \in DOMAIN send_statuses : \E nt \in NotificationTypes :
    send_statuses[u][nt] = "pending"

\* LastBatchStatusView.get
StatusGet ==
  /\ report' = IF ~session.present
               THEN [view |-> "status", statuses |-> <<>>, any_pending |-> FALSE]
               ELSE [view |-> "status", statuses |-> SendStatuses(session),
                     any_pending |-> AnyPending(SendStatuses(session))]
  /\ UNCHANGED <<clock, users, session, thread, sends, response, records>>
  /\ UNCHANGED sendVars
  /\ fresh' = TRUE

\* lines 130-132: both keys are popped when nothing is pending
MarkerAfterGet_AlwaysCleared(marker, any_pending) == NoMarker

MarkerAfterGet(marker, any_pending) == IF any_pending THEN marker ELSE NoMarker

\* NotificationSendView.get: the same reduction, and the marker is dropped
\* when nothing is pending
HomeGet ==
  /\ report' = IF ~session.present
               THEN [view |-> "home", statuses |-> <<>>, any_pending |-> FALSE]
               ELSE [view |-> "home", statuses |-> SendStatuses(session),
                     any_pending |-> AnyPending(SendStatuses(session))]
  /\ session' = IF session.present
                THEN MarkerAfterGet(session, AnyPending(SendStatuses(session)))
                ELSE session
  /\ UNCHANGED <<clock, users, thread, sends, response, records>>
  /\ UNCHANGED sendVars
  /\ fresh' = TRUE

InitBatch ==
  /\ InitService
  /\ users \in [UserIds -> BatchUsers]

NextBatch ==
  \/ \E user_ids \in SUBSET UserIds : \E message \in Messages :
       Post(user_ids, message)
  \/ ThreadStart
  \/ \E u \in UserIds : \E create_raises \in BOOLEAN : BatchSendStart(u, create_raises)
  \/ \E u \in UserIds : \E result \in BatchResults(u) : BatchSendFinish(u, result)
  \/ BatchTimeout
  \/ BatchFinish
  \/ StatusGet
  \/ HomeGet

SpecBatch == InitBatch /\ [][NextBatch]_vars

\* the thread and the event loop keep running, every await of a send comes
\* back, and the page keeps polling the status endpoint
SpecBatchFair ==
  /\ SpecBatch
  /\ WF_vars(ThreadStart)
  /\ WF_vars(\E u \in UserIds : \E create_raises \in BOOLEAN : BatchSendStart(u, create_raises))
  /\ WF_vars(\E u \in UserIds : \E result \in BatchResults(u) : BatchSendFinish(u, result))
  /\ WF_vars(BatchFinish)
  /\ WF_vars(StatusGet)

\* ------------------------------------- rows with a type and their statuses
\* Notification.create_for_user: a row of the given type for the user, with
\* the default status
CreateForUser(u, notification_type) ==
  /\ Len(records) < MaxTypedRows
  /\ u \in DOMAIN users
  /\ records' = Append(records,
                  [NewNotification(u, <<>>, clock)
                     EXCEPT !.notification_type = notification_type])
  /\ clock' = clock + 1
  /\ UNCHANGED <<users, session, thread, sends, response, report>>
  /\ UNCHANGED sendVars
  /\ fresh' = (fresh /\ records' = records)

\* typed rows are created and marked before and after a batch is posted, and
\* the two status views are asked at any time
NextStatus ==
  \/ \E user_ids \in SUBSET UserIds : \E message \in Messages :
       Post(user_ids, message)
  \/ \E u \in UserIds : \E nt \in NotificationTypes : CreateForUser(u, nt)
  \/ \E r \in DOMAIN records : \E e \in BOOLEAN : MarkAsSent(r, None, "t1", e)
  \/ \E r \in DOMAIN records : \E e \in BOOLEAN : MarkAsDelivered(r, e)
  \/ \E r \in DOMAIN records : \E e \in BOOLEAN : MarkAsFailed(r, None, e)
  \/ \E r \in DOMAIN records : \E e \in BOOLEAN : MarkAsRead(r, e)
  \/ \E r \in DOMAIN records : ApiMarkAsRead(r)
  \/ StatusGet
  \/ HomeGet

\* the status views read of a user only the id and is_staff
StatusUsers == {u \in BatchUsers : u.email = None /\ u.telegram_chat_id # None}

InitStatus ==
  /\ InitService
  /\ users \in [UserIds -> StatusUsers]

SpecStatus == InitStatus /\ [][NextStatus]_vars

\* batches are posted and rows created, never marked, while the two status
\* views are asked
NextPoll ==
  \/ \E user_ids \in SUBSET UserIds : \E message \in Messages :
       Post(user_ids, message)
  \/ \E u \in UserIds : \E nt \in NotificationTypes : CreateForUser(u, nt)
  \/ StatusGet
  \/ HomeGet

SpecPoll == InitStatus /\ [][NextPoll]_vars

\* ---- send_notification called with keyword arguments ----

\* a provider_timeout the caller passes
OverrideTimeout == 10

\* a timeout the caller passes among the options of one channel
ChannelTimeout == 5

\* what the caller may pass: timeout and provider_timeout (lines 64-65) and
\* options for the e-mail channel (line 98)
OptionValues ==
  [timeout |-> ShortOverallTimeout,
   provider_timeout |-> OverrideTimeout,
   email |-> [k \in {"timeout"} |-> ChannelTimeout]]

OptionKwargs ==
  {[k \in keys |-> OptionValues[k]] :
     keys \in SUBSET {"timeout", "provider_timeout", "email"}}

\* send_notification(message, **provider_kwargs) with the default priority
CallWithOptions ==
  /\ pc = "idle"
  /\ \E u \in Users, k \in OptionKwargs : SendNotification(u, TRUE, <<>>, k, FALSE)

NextOptions ==
  \/ CallWithOptions
  \/ \E i \in 1..MaxPriorityLen : StartTask(i)
  \/ \E i \in 1..MaxPriorityLen : ProviderCompletes(i)
  \/ FirstCompleted
  \/ OverallTimeout

SpecOptions == Init /\ [][NextOptions]_vars

\* ---- _get_recipient_for_provider on its own ----

\* the digits of str.isdigit for the numbers under test
Digits == {"0", "1", "2", "3", "4", "5", "6", "7", "8", "9"}

\* values of User.phone_number (users/models.py lines 59-66): the validator
\* runs only in full_clean, so the column can hold any string
PhoneNumbers == {"+79001234567", "79001234567", "+", "", "+a1"}

\* users as the table can hold them, with the notification e-mail
\* (users/models.py lines 42-75)
ResolveUsers ==
  [email : {None, "", "user@example.com"},
   notification_email : {None, "notify@example.com"},
   phone_number : {None} \cup PhoneNumbers,
   telegram_chat_id : {None, "4242"}]

\* a NotificationService constructed for one of the users, nothing sent yet
InitResolve ==
  /\ user \in ResolveUsers
  /\ pc = "idle"
  /\ priority = <<>>
  /\ overall_timeout = DEFAULT_OVERALL_TIMEOUT
  /\ provider_timeout = DEFAULT_TIMEOUT
  /\ records = <<>>
  /\ notification = 0
  /\ tasks = <<>>
  /\ ret = "none"
  /\ calls = [c \in PROVIDERS |-> 0]
  /\ call_kwargs = NoKwargs
  /\ provider_kwargs = NoKwargs
  /\ resolved = NotResolved
  /\ clock = 0
  /\ users = <<>>
  /\ session = NoMarker
  /\ thread = NoThread
  /\ sends = <<>>
  /\ response = "none"
  /\ report = NoReport
  /\ fresh = FALSE

\* NotificationService._get_recipient_for_provider(provider_name), lines 160-182
Resolve(provider_name) ==
  /\ pc = "idle"
  /\ resolved' = [provider_name |-> provider_name,
                  recipient |-> GetRecipientForProvider(user, provider_name)]
  /\ UNCHANGED <<pc, user, priority, overall_timeout, provider_timeout,
                 notification, tasks, ret, calls, call_kwargs, provider_kwargs>>
  /\ UNCHANGED batchVars
  /\ UNCHANGED <<records, fresh>>

NextResolve == \E provider_name \in ProviderNames : Resolve(provider_name)

SpecResolve == InitResolve /\ [][NextResolve]_vars

TypeOK ==
  /\ pc \in {"idle", "waiting", "done"}
  /\ ret \in {"none", "true", "false", "raised"}
  /\ notification \in 0..Len(records)
  /\ \A i \in Positions : tasks[i].state \in {"new", "inflight", "done", "cancelled"}
  /\ clock \in Nat
  /\ thread.state \in {"none", "started", "running", "finished", "timed_out"}
  /\ response \in {"none", "error_redirect", "redirect"}
  /\ report.view \in {"none", "status", "home"}
  /\ \A u \in DOMAIN sends :
       /\ sends[u].state \in {"new", "waiting", "true", "false", "cancelled"}
       /\ sends[u].row \in 0..Len(records)

\* ------------------------------------------------- vocabulary of the claims

\* send_notification has returned to its caller (a boolean, not an exception)
Returned == pc = "done" /\ ret \in {"true", "false"}

\* the task at position i ended without delivering: its provider returned
\* False, timed out or raised, or no recipient could be resolved
EndedWithoutSuccess(i) ==
  tasks[i].outcome \in {"failure", "timeout", "exception", "no_recipient",
                        "unconfigured"}

\* the provider call at position i was stopped by task.cancel() (line 127)
CancelledInFlight(i) ==
  tasks[i].outcome = "cancelled" /\ tasks[i].behaviour # None

\* the rows of the table that are in the given status
RowsIn(status) == {r \in DOMAIN records : records[r].status = status}

\* P': the priority list restricted to recognized channels
Recognized == {i \in DOMAIN priority : priority[i] \in PROVIDERS}

\* ---------------------------------------------------------------- claims

\* C1: within one send at most one provider call is in flight at any time.
C1_AtMostOneCallInFlight == Cardinality(InFlight) <= 1

\* C2: first success wins: once the provider attempt at some position has
\* succeeded, no provider has been invoked for a later position, and when
\* send returns the record is sent and the result is true.
C2_FirstSuccessWins ==
  \A i \in Positions :
    tasks[i].outcome = "success" =>
      /\ \A j \in Positions : j > i => j \notin Invoked
      /\ pc = "done" => (ret = "true" /\ records[notification].status = SENT)

\* C3: when exactly the provider at position k succeeds if left to run, and
\* every earlier channel fails or lacks a recipient, send returns true.
C3_KthSuccessReturnsTrue ==
  pc = "done" =>
    \A k \in Positions :
      ( /\ tasks[k].behaviour = "success"
        /\ \A j \in Positions \ {k} : tasks[j].behaviour # "success"
        /\ \A i \in Positions : i < k => EndedWithoutSuccess(i) )
      => ret = "true"

\* C4: one record per channel tried: when the channel at position k is the
\* one that succeeded (all earlier ones recognized and ended without
\* success), exactly k records exist after send returns, the k-th sent and
\* all earlier ones failed.
C4_OneRecordPerChannelTried ==
  Returned =>
    \A k \in Positions :
      ( /\ tasks[k].outcome = "success"
        /\ \A i \in Positions : i < k => EndedWithoutSuccess(i) )
      => /\ Len(records) = k
         /\ records[k].status = SENT
         /\ \A i \in 1..(k - 1) : records[i].status = FAILED

\* C5: channels are attempted strictly in priority order: the task at
\* position j has started only if every earlier position has already ended
\* without success.
C5_StrictPriorityOrder ==
  \A j \in Positions :
    tasks[j].state # "new" =>
      \A i \in Positions :
        i < j => (tasks[i].state = "done" /\ tasks[i].result = NoResult)

\* C6: when no channel succeeds, send returns false and exactly len(P')
\* records exist, all failed; no extra record marks the overall failure.
C6_ExhaustionLeavesOnlyChannelRecords ==
  (Returned /\ user # NoUser /\ \A i \in Positions : tasks[i].outcome # "success")
    => /\ ret = "false"
       /\ Len(records) = Cardinality(Recognized)
       /\ RowsIn(FAILED) = DOMAIN records

\* C7: a provider call that exceeds the per-channel timeout is recorded as
\* failed with the reason "provider timeout", only that call is cancelled
\* and the later channels are still attempted.
C7_TimeoutRecordedAndFallbackContinues ==
  Returned =>
    \A i \in Positions :
      tasks[i].outcome = "timeout" =>
        /\ \E r \in RowsIn(FAILED) : records[r].provider_data = "provider timeout"
        /\ \A j \in Positions : j # i => ~CancelledInFlight(j)

\* C8: an exception raised by one provider call is recorded as a failed
\* attempt carrying the error text, and no later channel's attempt is
\* abandoned because of it.
C8_ExceptionRecordedAndFallbackContinues ==
  Returned =>
    \A i \in Positions :
      tasks[i].outcome = "exception" =>
        /\ \E r \in RowsIn(FAILED) : records[r].provider_data # None
        /\ \A j \in Positions : j > i => tasks[j].outcome # "cancelled"

\* C9: a channel without a recipient gets no provider call, is recorded as
\* failed with the reason "no recipient", and the next channel is attempted
\* to its end.
C9_NoRecipientRecordedAndFallbackContinues ==
  Returned =>
    \A i \in Positions :
      tasks[i].outcome = "no_recipient" =>
        /\ i \notin Invoked
        /\ \E r \in RowsIn(FAILED) : records[r].provider_data = "no recipient"
        /\ \A j \in Positions : j > i => tasks[j].outcome # "cancelled"

\* C10: whatever the user, priority list and provider behaviour, once send
\* is over it has returned true or false: it never raises.
C10_SendNeverRaises == pc = "done" => ret \in {"true", "false"}

\* C11: send called with no user returns false at once, creates no record
\* and invokes no provider.
C11_NoUserFailsFast ==
  (pc = "done" /\ user = NoUser) =>
    /\ ret = "false"
    /\ records = <<>>
    /\ tasks = <<>>
    /\ \A c \in PROVIDERS : calls[c] = 0

\* a send without a user has returned
C11_Witness == pc = "done" /\ user = NoUser /\ ret = "false"

\* C12: with priority omitted or empty the channels attempted are those of
\* the default order telegram, email, sms.  (The local priority is empty
\* only when the caller passed an empty list.)
C12_EmptyPriorityMeansDefault ==
  (pc # "idle" /\ user # NoUser /\ notification # 0
     /\ (priority = <<>> \/ priority = DefaultPriority))
    => /\ Len(tasks) = Len(DefaultPriority)
       /\ \A i \in DOMAIN tasks : tasks[i].name = DefaultPriority[i]

\* C13: an unrecognized name is skipped silently: no provider is invoked for
\* it and the recognized channels run as if it were absent, so (when the
\* overall timeout cannot fire first) no provider call is cancelled while the
\* only finished tasks are those of unrecognized names.
C13_UnknownNameIsSkipped ==
  /\ \A i \in Positions : tasks[i].name \notin PROVIDERS => i \notin Invoked
  /\ ( /\ pc = "done"
       /\ provider_timeout < overall_timeout
       /\ DoneTasks # {}
       /\ \A i \in DoneTasks : tasks[i].outcome = "unknown_provider" )
     => \A j \in Positions : ~CancelledInFlight(j)

\* the transitions of the state machine pending -> sent -> {delivered, read},
\* pending -> failed, delivered -> read
AllowedTransitions ==
  {<<PENDING, SENT>>, <<PENDING, FAILED>>, <<SENT, DELIVERED>>,
   <<SENT, READ>>, <<DELIVERED, READ>>}

\* C14: every status change of a record follows the state machine: no record
\* leaves failed, none goes from pending directly to delivered or read, none
\* returns to pending.
C14_StatusFollowsStateMachine ==
  [][\A r \in DOMAIN records :
       \/ records'[r].status = records[r].status
       \/ <<records[r].status, records'[r].status>> \in AllowedTransitions]_vars

\* C15: sent_at is set exactly once, on the transition into sent: a record
\* in sent has sent_at set, a record in pending or failed has it unset, and
\* once set it never changes.
C15_SentAtSetOnceOnSent ==
  /\ [](\A r \in DOMAIN records :
          /\ records[r].status = SENT => records[r].sent_at # None
          /\ records[r].status = PENDING => records[r].sent_at = None)
  /\ [][\A r \in DOMAIN records :
          records[r].sent_at # None => records'[r].sent_at = records[r].sent_at]_vars

\* C16 as stated: every channel's provider is invoked at most once per send,
\* whatever the priority list contains.
C16_ChannelInvokedAtMostOnce == \A c \in PROVIDERS : calls[c] <= 1

\* C16 as amended: every entry of the priority list is tried at most once,
\* whatever the outcome of its attempt: a provider is invoked at most as
\* often as the list names it (at most once when the list names it once).
C16_EntryTriedAtMostOnce ==
  \A c \in PROVIDERS : calls[c] <= Occurrences(priority, c)

\* a send has returned false after trying, and not retrying, a channel the
\* list names once and whose attempt failed
C16_Witness ==
  /\ pc = "done"
  /\ ret = "false"
  /\ \E i \in Positions :
       /\ tasks[i].outcome \in {"failure", "timeout", "exception"}
       /\ Occurrences(priority, tasks[i].name) = 1
       /\ calls[tasks[i].name] = 1

\* C17: the POST that starts a batch has its redirect as soon as the
\* background thread exists, without waiting for any send, and nothing the
\* fan-out does afterwards (a failed send, an exception, the batch timeout)
\* changes that response.
C17_PostReturnsWithoutWaiting ==
  /\ [](thread.state # "none" => response = "redirect")
  /\ [][thread.state # "none" => response' = response]_vars

\* the request has been answered while a send of its batch is still waiting
C17_Witness ==
  /\ response = "redirect"
  /\ thread.state = "running"
  /\ BatchWaiting # {}

\* C18: a step that ends the batch by its deadline leaves every send of the
\* batch cancelled or already returned, keeps the results already returned,
\* and changes no row: pending stays pending, sent and failed stay as they are;
\* no later step changes a row either.
C18_DeadlineCancelsAndKeepsRecords ==
  [][thread'.state = "timed_out" =>
       /\ records' = records
       /\ \A u \in DOMAIN sends' : sends'[u].state \in {"true", "false", "cancelled"}
       /\ \A u \in DOMAIN sends :
            sends[u].state \in {"true", "false"} => sends'[u] = sends[u]]_vars

\* the deadline has cancelled one send, whose row is still pending, after
\* another send of the batch had finished and written its row
C18_Witness ==
  /\ thread.state = "timed_out"
  /\ \E u \in DOMAIN sends : \E v \in DOMAIN sends :
       /\ sends[u].state = "cancelled"
       /\ records[sends[u].row].status = PENDING
       /\ sends[v].state \in {"true", "false"}
       /\ sends[v].row # 0
       /\ records[sends[v].row].status \in {SENT, FAILED}

\* C19: while the batch runs, a step in which one user's send returns False
\* changes neither the state or result nor the row of any other user's send,
\* and no send is cancelled.
C19_SendsAreIndependent ==
  /\ [](thread.state = "running" => \A u \in DOMAIN sends : sends[u].state # "cancelled")
  /\ [][\A u \in DOMAIN sends :
          (/\ thread.state = "running"
           /\ thread'.state = "running"
           /\ sends[u].state # "false"
           /\ sends'[u].state = "false")
          => \A v \in DOMAIN sends \ {u} :
               /\ sends'[v] = sends[v]
               /\ sends[v].row # 0 => records'[sends[v].row] = records[sends[v].row]]_vars

\* one user's send has failed on every channel and another user's send of the
\* same batch has returned True with its row sent
C19_Witness ==
  \E u \in DOMAIN sends : \E v \in DOMAIN sends :
    /\ sends[u].state = "false"
    /\ sends[u].row # 0
    /\ records[sends[u].row].status = FAILED
    /\ sends[v].state = "true"
    /\ records[sends[v].row].status = SENT

\* C20: every status a status response reports is one of not_sent, pending,
\* success and error.
C20_StatusIsOneOfFour ==
  \A u \in DOMAIN report.statuses : \A nt \in NotificationTypes :
    report.statuses[u][nt] \in {"not_sent", "pending", "success", "error"}

\* the values the status of a record is reduced to: sent and delivered
\* collapse into success, and read is not distinguished from the four values
FourValues == {"not_sent", "pending", "success", "error"}

ReducedTo(status) ==
  CASE status = PENDING -> {"pending"}
    [] status \in {SENT, DELIVERED} -> {"success"}
    [] status = FAILED -> {"error"}
    [] OTHER -> FourValues \ {"not_sent"}

\* the rows of the user and channel created at or after the start of the batch
SinceStart(u, nt, started_at) ==
  {r \in DOMAIN records :
     /\ records[r].user = u
     /\ records[r].notification_type = nt
     /\ records[r].created_at >= started_at}

\* C21: a status response for a batch lists the non-staff users of the batch
\* and gives, for every user and channel, the reduction of the latest record
\* created at or after the start of the batch (not_sent when there is none,
\* so older records never count); any_pending is true exactly when one of the
\* reported statuses is pending.
C21_StatusIsLatestSinceStart ==
  [][(report' # report /\ session.present) =>
       /\ DOMAIN report'.statuses = SelectedUsers(session.ids)
       /\ \A u \in SelectedUsers(session.ids) : \A nt \in NotificationTypes :
            LET since == SinceStart(u, nt, session.started_at)
            IN IF since = {}
               THEN report'.statuses[u][nt] = "not_sent"
               ELSE \E r \in since :
                      /\ \A q \in since : records[q].created_at <= records[r].created_at
                      /\ report'.statuses[u][nt] \in ReducedTo(records[r].status)
       /\ report'.any_pending <=>
            \E u \in DOMAIN report'.statuses : \E nt \in NotificationTypes :
              report'.statuses[u][nt] = "pending"]_vars

\* C22: a status query that follows a status response, with no record
\* created or written in between, returns the same statuses and the same
\* any_pending as that response, whether or not the marker was cleared.
C22_StatusIsIdempotent ==
  [][fresh => /\ report'.statuses = report.statuses
              /\ report'.any_pending = report.any_pending]_vars

\* the user has no recipient on any channel
NoUsableRecipient(u) ==
  \A c \in PROVIDERS : ~Truthy(GetRecipientForProvider(users[u], c))

\* the batch has finished with u1 sent and u2, who has no usable recipient,
\* failed
BatchScenario(u1, u2) ==
  /\ thread.state = "finished"
  /\ u1 \in DOMAIN sends /\ u2 \in DOMAIN sends
  /\ sends[u1].state = "true"
  /\ sends[u2].state = "false"
  /\ sends[u2].row # 0
  /\ NoUsableRecipient(u2)

\* the status response the scenario is to end in
ScenarioReported(u1, u2) ==
  /\ report.view # "none"
  /\ ~report.any_pending
  /\ u1 \in DOMAIN report.statuses /\ u2 \in DOMAIN report.statuses
  /\ \A nt \in NotificationTypes :
       /\ report.statuses[u2][nt] = "error"
       /\ report.statuses[u1][nt] =
            IF nt = records[sends[u1].row].provider_used THEN "success" ELSE "not_sent"

\* C23: once a batch has finished with U1 sent and U2 failed for want of any
\* recipient, a status response eventually reports nothing pending, U1
\* success on the channel used and not_sent on the others, and U2 error on
\* every channel.
C23_BatchScenarioEventuallyReported ==
  \A u1 \in UserIds : \A u2 \in UserIds :
    BatchScenario(u1, u2) ~> ScenarioReported(u1, u2)

\* the rows of the users of the marker created at or after its start that
\* are still pending
PendingOfBatch(marker) ==
  {r \in DOMAIN records :
     /\ records[r].user \in marker.ids
     /\ records[r].created_at >= marker.started_at
     /\ records[r].status = PENDING}

\* C24: a step that removes the marker from the session is taken only when
\* no record of the batch is pending, and a status query on a session
\* without the marker leaves it without the marker.
C24_MarkerClearedOnlyWhenNothingPending ==
  /\ [][(session.present /\ ~session'.present) => PendingOfBatch(session) = {}]_vars
  /\ [][(~session.present /\ report' # report) => session' = NoMarker]_vars

\* a step of one of the two status views that is no stuttering step
StatusQueryStep ==
  \/ fresh' /\ ~fresh
  \/ report' # report
  \/ session.present /\ ~session'.present

\* C25: a status query leaves every record, the users, the thread and the
\* sends as they are; the one thing it may change besides its response is the
\* session, and only by removing the marker when nothing is pending.
C25_StatusQueryIsReadOnly ==
  [][StatusQueryStep =>
       /\ records' = records
       /\ UNCHANGED <<clock, users, thread, sends, response>>
       /\ UNCHANGED sendVars
       /\ session' # session => (session' = NoMarker /\ ~report'.any_pending)]_vars

\* the home view has answered, with records in the table, and removed the
\* marker of the batch
C25_Witness ==
  /\ report.view = "home"
  /\ fresh
  /\ records # <<>>
  /\ response = "redirect"
  /\ ~session.present

\* the provider calls that reached the outbound request
OutboundCalls ==
  {i \in Positions : tasks[i].behaviour \notin {None, "unconfigured"}}

\* C26: when a send has returned and the provider of the channel at position
\* i was not configured, no outbound call was made for it, a failed record
\* names that channel, and no later channel was left untried.
C26_UnconfiguredIsSkipped ==
  Returned =>
    \A i \in Positions :
      tasks[i].behaviour = "unconfigured" =>
        /\ i \notin OutboundCalls
        /\ \E r \in RowsIn(FAILED) :
             tasks[i].name \in {records[r].notification_type, records[r].provider_used}
        /\ \A j \in Positions : j > i => tasks[j].outcome # "cancelled"

\* C27: no call of a provider's send ends by raising.
C27_NoErrorCrossesProviderBoundary ==
  \A i \in Positions : tasks[i].outcome # "exception"

\* C28: the sends of a batch hold different rows, and a step that writes a
\* row is the return of the one send that created it and of no other send.
C28_RecordWrittenOnlyByItsSend ==
  /\ [](\A u \in DOMAIN sends : \A v \in DOMAIN sends :
          (u # v /\ sends[u].row # 0) => sends[u].row # sends[v].row)
  /\ [][\A r \in DOMAIN records :
          records'[r] # records[r] =>
            \E u \in DOMAIN sends :
              /\ sends[u].row = r
              /\ sends[u].state = "waiting"
              /\ sends'[u].state \in {"true", "false"}
              /\ \A v \in DOMAIN sends \ {u} : sends'[v] = sends[v]]_vars

\* two sends of one batch have both returned, each having written its row
C28_Witness ==
  \E u \in DOMAIN sends : \E v \in DOMAIN sends :
    /\ u # v
    /\ sends[u].state \in {"true", "false"} /\ sends[u].row # 0
    /\ sends[v].state \in {"true", "false"} /\ sends[v].row # 0
    /\ records[sends[u].row].status # PENDING
    /\ records[sends[v].row].status # PENDING

\* C29: a thread is only ever started with users and a message, and the
\* step that answers a POST with the error changes neither the session nor
\* the thread, the sends, the records or the provider calls; nothing exists
\* of a batch after it.
C29_EmptyBatchIsRejectedWithoutEffect ==
  /\ [](thread.state # "none" => (thread.user_ids # {} /\ thread.message # <<>>))
  /\ [](response = "error_redirect" =>
          /\ session = NoMarker
          /\ thread = NoThread
          /\ sends = <<>>
          /\ records = <<>>
          /\ \A c \in PROVIDERS : calls[c] = 0)
  /\ [][response' = "error_redirect" =>
          UNCHANGED <<session, thread, sends, records, calls, clock>>]_vars

\* a POST has been answered with the error and the status asked afterwards
C29_Witness ==
  /\ response = "error_redirect"
  /\ report.view = "status"

\* C30: no send of a batch is for a staff user and no row of the batch
\* belongs to one.
C30_BatchNeverTargetsStaff ==
  /\ \A u \in DOMAIN sends : ~users[u].is_staff
  /\ \A r \in DOMAIN records : ~users[records[r].user].is_staff

\* a batch posted with a staff user among its ids has sent to another user
C30_Witness ==
  /\ \E u \in thread.user_ids : users[u].is_staff
  /\ \E v \in DOMAIN sends : sends[v].state = "true"

\* ---- the recipient of a channel ----

\* User.get_notification_email (users/models.py lines 114-116):
\* self.notification_email or self.email
GetNotificationEmail(u) ==
  IF Truthy(u.notification_email) THEN u.notification_email ELSE u.email

\* C31: resolving the e-mail channel gives the user's notification_email when
\* it is set, otherwise the login e-mail, otherwise nothing.
C31_EmailPrefersNotificationEmail ==
  resolved.provider_name = "email" =>
    IF Truthy(GetNotificationEmail(user))
    THEN resolved.recipient = GetNotificationEmail(user)
    ELSE ~Truthy(resolved.recipient)

\* the characters of the phone numbers under test and of what is left of
\* them without the leading "+"
Characters(str) ==
  CASE str = "+79001234567" ->
         <<"+", "7", "9", "0", "0", "1", "2", "3", "4", "5", "6", "7">>
    [] str = "79001234567" ->
         <<"7", "9", "0", "0", "1", "2", "3", "4", "5", "6", "7">>
    [] str = "+" -> <<"+">>
    [] str = "+a1" -> <<"+", "a", "1">>
    [] str = "a1" -> <<"a", "1">>
    [] str = "" -> <<>>

\* the number the SMS channel is to use: the stored one without a leading
\* "+", and none when that does not start with a digit
PhoneForSms(u) ==
  IF u.phone_number = None THEN None
  ELSE LET cs == Characters(u.phone_number)
           stripped == IF cs # <<>> /\ Head(cs) = "+" THEN Tail(cs) ELSE cs
       IN IF stripped # <<>> /\ Head(stripped) \in Digits
          THEN CHOOSE str \in PhoneNumbers \cup {"a1"} : Characters(str) = stripped
          ELSE None

\* C32: resolving the SMS channel gives the stored phone number without its
\* leading "+", and nothing when what is left does not start with a digit or
\* no number is stored.
C32_SmsStripsPlusAndWantsDigit ==
  resolved.provider_name = "sms" =>
    IF PhoneForSms(user) = None
    THEN ~Truthy(resolved.recipient)
    ELSE resolved.recipient = PhoneForSms(user)

\* ---- the deadline of a provider call ----

\* C33: every provider call of a send runs under the provider_timeout the
\* caller passed, or under 15 seconds when none was passed, and every option
\* the caller passed for a channel is still what the channel is given.
C33_DeadlineIsOverrideOrFifteen ==
  \A i \in Invoked :
    /\ provider_timeout = Pop(call_kwargs, "provider_timeout", 15)
    /\ \A c \in DOMAIN call_kwargs \cap PROVIDERS :
         \A o \in DOMAIN call_kwargs[c] :
           /\ o \in DOMAIN provider_kwargs[c]
           /\ provider_kwargs[c][o] = call_kwargs[c][o]

\* ---- the record of a send ----

\* C34: whenever a provider has been invoked for the channel at position i, a
\* record of the user exists whose channel field names that channel.
C34_AttemptRecordPrecedesProviderCall ==
  \A i \in Invoked :
    \E r \in DOMAIN records :
      /\ records[r].user = user
      /\ records[r].notification_type = tasks[i].name

\* C35: when send has returned a value for a present user, its record is no
\* longer pending; the value is true exactly when the record is sent and
\* false exactly when it is failed.
C35_ReturnValueMatchesRecord ==
  (Returned /\ user # NoUser) =>
    /\ notification \in DOMAIN records
    /\ records[notification].status # PENDING
    /\ (ret = "true") <=> (records[notification].status = SENT)
    /\ (ret = "false") <=> (records[notification].status = FAILED)

\* a send that invoked a provider has returned false and its record is failed
C35_Witness ==
  /\ Returned
  /\ user # NoUser
  /\ ret = "false"
  /\ Invoked # {}
  /\ records[notification].status = FAILED

\* C36: when send has returned false and its record is failed, no provider
\* call of that send has delivered the message and none is still running.
C36_FailedRecordMeansNotDelivered ==
  ( /\ Returned
    /\ ret = "false"
    /\ user # NoUser
    /\ records[notification].status = FAILED )
  => \A i \in Positions :
       /\ ~tasks[i].delivered
       /\ tasks[i].request # "running"

\* ---- the marker of the last batch ----

\* C37: a step that removes the marker from the session is taken only after
\* the background thread of the batch has ended, with every send of the batch
\* completed or cancelled.
C37_MarkerSurvivesUnfinishedBatch ==
  [][(session.present /\ ~session'.present) =>
       /\ thread.state \in {"finished", "timed_out"}
       /\ \A u \in DOMAIN sends :
            sends[u].state \in {"true", "false", "cancelled"}]_vars

\* ---- the overall timeout of a send ----

\* C38: a step in which the wait of a send ends with no provider task done,
\* which is the overall timeout elapsing, cancels every task in flight, writes
\* the record as failed and returns false.
C38_OverallTimeoutCancelsAndFails ==
  [][(pc = "waiting" /\ DoneTasks = {} /\ pc' = "done") =>
       /\ \A i \in InFlight : tasks'[i].state = "cancelled"
       /\ records'[notification].status = FAILED
       /\ ret' = "false"]_vars

\* a send has returned false with every one of its provider calls cancelled
\* in flight and its record failed
C38_Witness ==
  /\ Returned
  /\ ret = "false"
  /\ user # NoUser
  /\ Positions # {}
  /\ \A i \in Positions : CancelledInFlight(i)
  /\ records[notification].status = FAILED

\* ---- the channel of a sent record ----

\* the positions whose provider call ended with success
Succeeded == {i \in Positions : tasks[i].outcome = "success"}

\* C39: when send has returned true, the channel and recipient on its record
\* are those of the first position in the priority list whose provider call
\* succeeded, so they are fixed by the user, the list and the outcomes.
C39_RecordedChannelIsHighestPrioritySuccess ==
  (Returned /\ ret = "true") =>
    \E k \in Succeeded :
      /\ \A j \in Succeeded : k <= j
      /\ records[notification].provider_used = tasks[k].name
      /\ records[notification].recipient = GetRecipientForProvider(user, tasks[k].name)

====
